---------------------------- MODULE Spec2Model ----------------------------
(***************************************************************************)
(* A model of the agent runtime of learn-claude-code-ts: the agent loop    *)
(* and session driver in its three variants (s02_tool_use.ts, the          *)
(* Anthropic s01 loop, the OpenAI s01 loop), and the sandboxed executors   *)
(* of s02 (safePath, runBash, runRead, runWrite, runEdit).                 *)
(*                                                                         *)
(* Texts (commands, paths, file contents) are sequences of one-character   *)
(* strings, so that includes / startsWith / replace / split are computed   *)
(* character by character as the JavaScript library computes them.         *)
(***************************************************************************)
EXTENDS Integers, Sequences, FiniteSets, TLC

VARIABLES
    \* ---- session driver and agent loop ----
    variant,      \* which program runs: "s02", "s01_anthropic", "s01_openai"
    history,      \* main's `history` array: the conversation
    pc,           \* position of the session: "prompt", "model" (awaiting the
                  \*   model call), "dispatch" (at a tool call), "exec"
                  \*   (awaiting its executor),
                  \*   "closed" (exit token read), "dead" (main rejected)
    idx,          \* index of the tool call the for loop is at
    results,      \* the Anthropic loop's local `results` array
    loopExit,     \* how the last agentLoop call ended: "none", "running",
                  \*   "returned", "threw_model", "threw_dispatch"
    reported,     \* number of errors the driver's catch block has printed
    nextId,       \* next identifier the model collaborator will issue
    queries,      \* user queries accepted so far
    modelCalls,   \* model calls issued so far
    toolCalls,    \* tool-invocation requests the model has emitted so far
    calls,        \* the tool calls of the turn being dispatched
    console,      \* the last trace line the dispatch loop has printed
    inflight,     \* the awaited operations that have not completed: "model"
                  \*   and the identifiers of the requests whose executor runs
    \* ---- run-command ----
    bvariant,     \* which runBash runs: "s02" (exec) or "s01" (Bun.spawn)
    bpc,          \* "idle" (no call in progress) or "running" (awaiting)
    bcmd,         \* the command of the current or last call
    bspawned,     \* whether that call has invoked exec / Bun.spawn
    bresult,      \* what that call returned
    bkilled,      \* whether the 120 s timer of that call has fired and
                  \*   sent its kill signal
    bexit,        \* how the subprocess of that call ended, and what it wrote
    procs,        \* subprocesses running
    bcalls,       \* calls of runBash so far
    \* ---- file tools ----
    files,        \* the regular files: absolute path -> text
    dirs,         \* the directories: a set of absolute paths
    fop,          \* the last call of a file tool: its arguments and result
    fcalls,       \* calls of file tools so far
    \* ---- the output bound alone ----
    tin,          \* a text before the bound is applied
    tout,         \* the text after `tn` applications of the bound
    tn            \* number of applications so far

loopVars == <<variant, history, pc, idx, results, loopExit, reported,
              nextId, queries, modelCalls, toolCalls, calls, console,
              inflight>>

bashVars == <<bvariant, bpc, bcmd, bspawned, bresult, bkilled, bexit, procs,
              bcalls>>

fileVars == <<files, dirs, fop, fcalls>>

truncVars == <<tin, tout, tn>>

vars == <<loopVars, bashVars, fileVars, truncVars>>

-----------------------------------------------------------------------------
(* Bounds of the model *)

MaxQueries == 2
MaxModelCalls == 2
MaxToolCalls == 2
MaxBashCalls == 2
MaxFileCalls == 2
MaxApplications == 2
ShortLen == 4

-----------------------------------------------------------------------------
(* Generic helpers *)

Last(s) == s[Len(s)]

Range(s) == {s[i] : i \in 1..Len(s)}

-----------------------------------------------------------------------------
(* The three variants of the program *)

Variants == {"s02", "s01_anthropic", "s01_openai"}

\* The finish signal that asks for a dispatch round.
ToolSignal(v) == IF v = "s01_anthropic" THEN "tool_use" ELSE "tool_calls"

\* Any other finish signal of the collaborator (stop, length, end_turn, ...).
OtherSignal(v) == IF v = "s01_anthropic" THEN "end_turn" ELSE "stop"

Signals(v) == {ToolSignal(v), OtherSignal(v)}

-----------------------------------------------------------------------------
(* Turns of the conversation *)

NoCalls == <<>>

SystemTurn ==
    [role |-> "system", signal |-> "", has_tool_calls |-> FALSE,
     tool_calls |-> NoCalls, tool_call_id |-> 0, content |-> "SYSTEM",
     results |-> <<>>]

UserTurn ==
    [role |-> "user", signal |-> "", has_tool_calls |-> FALSE,
     tool_calls |-> NoCalls, tool_call_id |-> 0, content |-> "query",
     results |-> <<>>]

\* The assistant message: its finish signal, whether the tool_calls field
\* is present (OpenAI) and the tool-invocation requests it carries.
AssistantTurn(sig, has, cs) ==
    [role |-> "assistant", signal |-> sig, has_tool_calls |-> has,
     tool_calls |-> cs, tool_call_id |-> 0, content |-> "",
     results |-> <<>>]

\* OpenAI: one message of role "tool" per result.
ToolTurn(id, out) ==
    [role |-> "tool", signal |-> "", has_tool_calls |-> FALSE,
     tool_calls |-> NoCalls, tool_call_id |-> id, content |-> out,
     results |-> <<>>]

\* Anthropic: one user message holding the round's tool_result blocks.
ResultsTurn(res) ==
    [role |-> "user", signal |-> "", has_tool_calls |-> FALSE,
     tool_calls |-> NoCalls, tool_call_id |-> 0, content |-> "tool_results",
     results |-> res]

ToolResultBlock(id, out) == [tool_use_id |-> id, content |-> out]

-----------------------------------------------------------------------------
(* Tool-invocation requests *)

\* Names the model collaborator may put in a request: two registered tools,
\* a name nobody registered, and a name that is a property every JavaScript
\* object inherits from Object.prototype.
ToolNames == {"bash", "read_file", "grep", "constructor"}

\* What the arguments payload of a request may be: well formed, text that
\* is not JSON, or an object lacking the fields the tool needs.  The
\* Anthropic SDK hands over an already parsed object, never text.
ArgShapes(v) ==
    IF v = "s01_anthropic" THEN {"ok", "missing"}
    ELSE {"ok", "unparseable", "missing"}

ToolCall(id, name, args) == [id |-> id, name |-> name, args |-> args]

\* s02: the keys of the TOOL_HANDLERS object literal.
TOOL_HANDLERS == {"bash", "read_file", "write_file", "edit_file"}

\* s02: TOOL_HANDLERS[name] is a property lookup on a plain object, which
\* also finds what the object inherits (constructor is the function Object).
ObjectPrototypeKeys == {"constructor"}

HandlerLookup(name) ==
    IF name \in TOOL_HANDLERS THEN "own"
    ELSE IF name \in ObjectPrototypeKeys THEN "inherited"
    ELSE "none"

\* s01 and s02: the names advertised to the model in TOOLS.
TOOLS(v) == IF v = "s02" THEN {"bash", "read_file", "write_file", "edit_file"}
            ELSE {"bash"}

\* The names the dispatch code resolves to an executor: the keys of
\* TOOL_HANDLERS (s02), the one name the s01 OpenAI loop tests for.
Registered(v) == IF v = "s02" THEN TOOL_HANDLERS ELSE {"bash"}

\* s02: JSON.parse(toolCall.function.arguments) throws a SyntaxError.
JsonParseThrows(args) == args = "unparseable"

\* s02: whether `await handler(args)` and the use of its output throw.
\*   bash: runBash(undefined) calls command.includes outside its try block;
\*   the file tools run inside try/catch and turn every failure into text;
\*   constructor: Object(args) is no string, output.substring is no function.
HandlerThrows(name, args) ==
    CASE HandlerLookup(name) = "inherited" -> TRUE
      [] name = "bash" -> args = "missing"
      [] OTHER -> FALSE

\* The characters of a tool name.
NameText(name) ==
    CASE name = "bash" -> <<"b", "a", "s", "h">>
      [] name = "read_file" -> <<"r", "e", "a", "d", "_", "f", "i", "l", "e">>
      [] name = "grep" -> <<"g", "r", "e", "p">>
      [] name = "constructor" ->
            <<"c", "o", "n", "s", "t", "r", "u", "c", "t", "o", "r">>

\* `Unknown tool: ${toolCall.function.name}`
UnknownToolText(name) ==
    <<"U", "n", "k", "n", "o", "w", "n", " ", "t", "o", "o", "l", ":", " ">>
    \o NameText(name)

\* The trace line shows at most this many characters of an output.
TRACE_CUT == 200

\* A text of two lines that is longer than the trace line shows.
LongOutput == [i \in 1..(TRACE_CUT + 1) |-> IF i = 2 THEN "\n" ELSE "x"]

\* s02: the text the handler returns (or the unknown-tool text): two lines
\* from bash, a long text from read_file, an error text from a file tool
\* whose arguments lack a field.
HandlerOutput(name, args) ==
    IF HandlerLookup(name) = "none" THEN UnknownToolText(name)
    ELSE IF args # "ok" THEN <<"E", "r", "r", "o", "r", ":", " ">> \o NameText(name)
    ELSE IF name = "read_file" THEN LongOutput
    ELSE <<"o", "k", "\n">> \o NameText(name)

\* s01: args.command coerced to a string: a JSON failure and a missing
\* field both give the empty command.
CoerceCommand(args) == IF args = "ok" THEN "command" ELSE ""

\* s01: runBash(command) always returns a text.
RunBashText(command) ==
    IF command = ""
    THEN <<"(", "n", "o", " ", "o", "u", "t", "p", "u", "t", ")">>
    ELSE <<"o", "k", "\n", "l", "s">>

-----------------------------------------------------------------------------
(* Texts: sequences of one-character strings *)

\* String.prototype.startsWith
StartsWith(s, t) == Len(t) <= Len(s) /\ SubSeq(s, 1, Len(t)) = t

\* String.prototype.includes
Includes(s, t) ==
    \E i \in 0..(Len(s) - Len(t)) : SubSeq(s, i + 1, i + Len(t)) = t

\* String.prototype.indexOf, counted from 0 (t occurs in s)
IndexOf(s, t) ==
    CHOOSE i \in 0..(Len(s) - Len(t)) :
        /\ SubSeq(s, i + 1, i + Len(t)) = t
        /\ \A j \in 0..(i - 1) : SubSeq(s, j + 1, j + Len(t)) # t

\* A cut that would keep the character at index n as well.
Substring0Inclusive(s, n) == SubSeq(s, 1, IF n + 1 < Len(s) THEN n + 1 ELSE Len(s))

\* String.prototype.substring(0, n)
Substring0(s, n) == SubSeq(s, 1, IF n < Len(s) THEN n ELSE Len(s))

WhiteSpace == {" ", "\n"}

RECURSIVE TrimStart(_)
TrimStart(s) ==
    IF s # <<>> /\ Head(s) \in WhiteSpace THEN TrimStart(Tail(s)) ELSE s

RECURSIVE TrimEnd(_)
TrimEnd(s) ==
    IF s # <<>> /\ s[Len(s)] \in WhiteSpace
    THEN TrimEnd(SubSeq(s, 1, Len(s) - 1)) ELSE s

\* String.prototype.trim
Trim(s) == TrimEnd(TrimStart(s))

-----------------------------------------------------------------------------
(* runBash *)

MAX_OUTPUT == 50000

\* The denylisted substrings.
D_RM == <<"r", "m", " ", "-", "r", "f", " ", "/">>
D_SUDO == <<"s", "u", "d", "o">>
D_SHUTDOWN == <<"s", "h", "u", "t", "d", "o", "w", "n">>
D_REBOOT == <<"r", "e", "b", "o", "o", "t">>
D_DEV == <<">", " ", "/", "d", "e", "v", "/">>

dangerous == {D_RM, D_SUDO, D_SHUTDOWN, D_REBOOT, D_DEV}

\* A check that only looks at the head of the command.
IsDangerousAtStart(command) == \E d \in dangerous : StartsWith(command, d)

\* dangerous.some((d) => command.includes(d))
IsDangerous(command) == \E d \in dangerous : Includes(command, d)

\* Pieces the commands of the model are put together from: what may come
\* before, a denylisted substring or a near miss, and what may come after.
CommandHeads == {<<>>,
                 <<"l", "s", " ">>,
                 <<"e", "c", "h", "o", " ", "x", ";", " ">>}

CommandBodies == {<<"r", "m", " ", "-", "r", "f", " ", "/">>,
                  <<"s", "u", "d", "o">>,
                  <<"s", "h", "u", "t", "d", "o", "w", "n">>,
                  <<"r", "e", "b", "o", "o", "t">>,
                  <<">", " ", "/", "d", "e", "v", "/">>,
                  <<"r", "m", " ", "-", "r", "f", " ", ".">>,
                  <<"s", "u", "d", " ", "o">>,
                  <<"s", "h", "u", "t", " ", "d", "o", "w", "n">>,
                  <<"r", "e", "b", "o", "t">>,
                  <<">", "/", "d", "e", "v", "/">>,
                  <<"l", "s">>}

CommandTails == {<<>>,
                 <<" ", "-", "h">>}

Commands ==
    {h \o b \o t : h \in CommandHeads, b \in CommandBodies, t \in CommandTails}

\* What a subprocess may write to stdout and to stderr.
Outputs == {<<>>, <<"h", "i", "\n">>, <<" ", "\n">>, <<"e">>}

BashVariants == {"s02", "s01"}

\* The results of runBash.
Blocked == [kind |-> "Error: Dangerous command blocked", text |-> <<>>]
Timeout == [kind |-> "Error: Timeout (120s)", text |-> <<>>]
NoOutput == [kind |-> "(no output)", text |-> <<>>]
ErrorMessage == [kind |-> "Error: message", text |-> <<>>]
Output(t) == [kind |-> "output", text |-> t]
NoResult == [kind |-> "none", text |-> <<>>]

\* How a subprocess ended: by itself ("exit": what it wrote, whether its
\* status was 0), by the kill signal ("signal"), never launched
\* ("spawn_error"); "none" while it runs or when none was spawned.
ProcEnd(how, stdout, stderr, ok) ==
    [how |-> how, stdout |-> stdout, stderr |-> stderr, ok |-> ok]

NoExit == ProcEnd("none", <<>>, <<>>, TRUE)

\* out ? out.substring(0, 50000) : "(no output)"
OutputOrSentinel(stdout, stderr) ==
    LET out == Trim(stdout \o stderr)
    IN  IF out # <<>> THEN Output(Substring0(out, MAX_OUTPUT)) ELSE NoOutput

\* s02, catch block: out ? out.substring(0, 50000) : `Error: ${e.message}`
OutputOrMessage(stdout, stderr) ==
    LET out == Trim(stdout \o stderr)
    IN  IF out # <<>> THEN Output(Substring0(out, MAX_OUTPUT)) ELSE ErrorMessage

BashIdle ==
    /\ bpc = "idle"
    /\ bcmd = <<>>
    /\ bspawned = FALSE
    /\ bresult = NoResult
    /\ bkilled = FALSE
    /\ bexit = NoExit
    /\ procs = 0
    /\ bcalls = 0

\* runBash is called: a denylisted command is refused, any other is handed
\* to exec (s02) or Bun.spawn (s01) and awaited.
BashCall ==
    /\ UNCHANGED <<loopVars, fileVars, truncVars>>
    /\ bpc = "idle"
    /\ bcalls < MaxBashCalls
    /\ \E command \in Commands :
        /\ bcmd' = command
        /\ bcalls' = bcalls + 1
        /\ bkilled' = FALSE
        /\ bexit' = NoExit
        /\ IF IsDangerous(command)
           THEN /\ bresult' = Blocked
                /\ bspawned' = FALSE
                /\ UNCHANGED <<bpc, procs>>
           ELSE /\ bresult' = NoResult
                /\ bspawned' = TRUE
                /\ bpc' = "running"
                /\ procs' = procs + 1
    /\ UNCHANGED bvariant

\* The result of a call whose subprocess has ended by itself.  s02: exec
\* resolves on status 0 and rejects on any other status, with e.signal
\* null, so that the catch block falls through to the output.  s01: the
\* status is never looked at; proc.killed tells that proc.kill() ran.
ExitResult(v, killed, stdout, stderr, ok) ==
    IF v = "s02"
    THEN IF ok THEN OutputOrSentinel(stdout, stderr)
         ELSE OutputOrMessage(stdout, stderr)
    ELSE IF killed THEN Timeout
         ELSE OutputOrSentinel(stdout, stderr)

\* The subprocess ends by itself, with some output and an exit status:
\* before the timer fires, or after it when the kill signal did not end it.
ProcExits ==
    /\ UNCHANGED <<loopVars, fileVars, truncVars>>
    /\ bpc = "running"
    /\ \E stdout \in Outputs, stderr \in Outputs, ok \in BOOLEAN :
        /\ bresult' = ExitResult(bvariant, bkilled, stdout, stderr, ok)
        /\ bexit' = ProcEnd("exit", stdout, stderr, ok)
    /\ bpc' = "idle"
    /\ procs' = procs - 1
    /\ UNCHANGED <<bvariant, bcmd, bspawned, bkilled, bcalls>>

\* The 120 s timer fires while the subprocess runs: exec's timeout (s02)
\* and proc.kill() (s01) send SIGTERM, once.  A subprocess that dies of it
\* makes the call return the timeout text; one that catches or ignores the
\* signal runs on, and the call keeps awaiting it.
TimerFires ==
    /\ UNCHANGED <<loopVars, fileVars, truncVars>>
    /\ bpc = "running"
    /\ ~bkilled
    /\ bkilled' = TRUE
    /\ \E dies \in BOOLEAN :
        IF dies
        THEN /\ bresult' = Timeout
             /\ bexit' = ProcEnd("signal", <<>>, <<>>, FALSE)
             /\ bpc' = "idle"
             /\ procs' = procs - 1
        ELSE UNCHANGED <<bresult, bexit, bpc, procs>>
    /\ UNCHANGED <<bvariant, bcmd, bspawned, bcalls>>

\* exec / Bun.spawn fails to launch the shell.
SpawnFails ==
    /\ UNCHANGED <<loopVars, fileVars, truncVars>>
    /\ bpc = "running"
    /\ ~bkilled
    /\ bresult' = ErrorMessage
    /\ bexit' = ProcEnd("spawn_error", <<>>, <<>>, FALSE)
    /\ bpc' = "idle"
    /\ procs' = procs - 1
    /\ UNCHANGED <<bvariant, bcmd, bspawned, bkilled, bcalls>>

-----------------------------------------------------------------------------
(* Paths: node:path on POSIX *)

Min(a, b) == IF a < b THEN a ELSE b

\* String.prototype.split(sep) for a one-character separator.
RECURSIVE Split(_, _)
Split(s, sep) ==
    IF \E i \in 1..Len(s) : s[i] = sep
    THEN LET i == CHOOSE i \in 1..Len(s) :
                    s[i] = sep /\ \A j \in 1..(i - 1) : s[j] # sep
         IN  <<SubSeq(s, 1, i - 1)>> \o Split(SubSeq(s, i + 1, Len(s)), sep)
    ELSE <<s>>

\* Array.prototype.join(sep)
RECURSIVE Join(_, _)
Join(parts, sep) ==
    IF parts = <<>> THEN <<>>
    ELSE IF Len(parts) = 1 THEN parts[1]
    ELSE parts[1] \o <<sep>> \o Join(Tail(parts), sep)

DOT == <<".">>
DOTDOT == <<".", ".">>

\* Normalisation of the segments of a path: "" and "." are dropped, ".."
\* removes the segment before it (and nothing at the root).
RECURSIVE NormalizeSegments(_, _)
NormalizeSegments(segs, stack) ==
    IF segs = <<>> THEN stack
    ELSE LET seg == Head(segs)
         IN  IF seg = <<>> \/ seg = DOT
             THEN NormalizeSegments(Tail(segs), stack)
             ELSE IF seg = DOTDOT
             THEN NormalizeSegments(Tail(segs),
                                    SubSeq(stack, 1, Len(stack) - 1))
             ELSE NormalizeSegments(Tail(segs), Append(stack, seg))

\* The absolute path with these segments: no trailing slash, "/" the root.
RenderPath(segs) ==
    IF segs = <<>> THEN <<"/">> ELSE <<"/">> \o Join(segs, "/")

Segments(abs) == NormalizeSegments(Split(abs, "/"), <<>>)

\* path.resolve(base, p): p itself when absolute, else p under base.
PathResolve(base, p) ==
    IF p # <<>> /\ p[1] = "/"
    THEN RenderPath(Segments(p))
    ELSE RenderPath(NormalizeSegments(Split(base, "/") \o Split(p, "/"), <<>>))

\* path.dirname of a resolved path
PathDirname(abs) ==
    RenderPath(SubSeq(Segments(abs), 1, Len(Segments(abs)) - 1))

\* The directory and every directory above it.
AncestorsAndSelf(abs) ==
    {RenderPath(SubSeq(Segments(abs), 1, k)) : k \in 0..Len(Segments(abs))}

WORKDIR == <<"/", "w", "/", "a">>

\* safePath: whether the resolved path passes the check (else it throws).
SafePathOk(p) == StartsWith(PathResolve(WORKDIR, p), WORKDIR)

-----------------------------------------------------------------------------
(* The file system *)

\* fs.mkdir(d, { recursive: true }) fails when d or a directory above it is
\* a regular file.
MkdirFails(d) == \E a \in AncestorsAndSelf(d) : a \in DOMAIN files

\* fs.readFile(fp) fails when fp is no regular file.
ReadFails(fp) == fp \notin DOMAIN files

\* fs.writeFile(fp) fails when fp is a directory or its parent is none.
WriteFails(fp, ds) == fp \in ds \/ PathDirname(fp) \notin ds

WithFile(fp, text) ==
    [q \in DOMAIN files \cup {fp} |-> IF q = fp THEN text ELSE files[q]]

-----------------------------------------------------------------------------
(* Results of the file tools *)

ErrorResult(msg) == [kind |-> "Error: ", msg |-> msg, text |-> <<>>, bytes |-> 0]
ContentResult(t) == [kind |-> "content", msg |-> "", text |-> t, bytes |-> 0]
WroteResult(n) == [kind |-> "Wrote n bytes to p", msg |-> "", text |-> <<>>, bytes |-> n]
EditedResult == [kind |-> "Edited p", msg |-> "", text |-> <<>>, bytes |-> 0]
NoFileResult == [kind |-> "none", msg |-> "", text |-> <<>>, bytes |-> 0]

FileOp(tool, p, content, old, new, hasLimit, limit, result) ==
    [tool |-> tool, path |-> p, content |-> content, old_text |-> old,
     new_text |-> new, has_limit |-> hasLimit, limit |-> limit,
     result |-> result]

-----------------------------------------------------------------------------
(* Inputs of the file tools *)

\* The path arguments of the model: inside the working directory, in a
\* sibling directory whose name starts with the working directory's name,
\* elsewhere outside, absolute, and under a regular file.
PathInputs == {<<"f">>,
               <<"d", "/", "g">>,
               <<".", ".", "/", "a", "b", "/", "f">>,
               <<".", ".", "/", "b", "/", "f">>,
               <<"/", "w", "/", "a", "/", "f">>,
               <<"/", "e", "t", "c", "/", "x">>,
               <<".">>,
               <<"f", "/", "g">>}

\* Texts a file may hold at the start.
InitTexts == {<<"a", "\n", "b", "\n", "a">>, <<"a", "b", "a">>, <<>>}

\* Texts write_file is asked to write.
WriteContents == {<<"b">>, <<"U+00E9", "\n">>}

\* old_text and new_text of edit_file.
OldTexts == {<<"a">>, <<"c">>}

NewTexts == {<<"b">>, <<"$", "$">>, <<"$", "&", "b">>}

\* Line limits read_file is asked for.
Limits == {-1, 0, 1, 3}

-----------------------------------------------------------------------------
(* runRead *)

\* The marker line `... (k more lines)`, one token.
MoreLines(k) == <<"... (" \o ToString(k) \o " more lines)">>

\* Array.prototype.slice(0, end)
Slice0(a, end) ==
    IF end >= 0 THEN SubSeq(a, 1, Min(end, Len(a)))
    ELSE SubSeq(a, 1, IF Len(a) + end > 0 THEN Len(a) + end ELSE 0)

\* limit && limit < lines.length: undefined and 0 are falsy.
LimitApplies(hasLimit, limit, n) == hasLimit /\ limit # 0 /\ limit < n

\* The text runRead returns for a file holding `text`.
ReadText(text, hasLimit, limit) ==
    LET lines == Split(text, "\n")
        kept == IF LimitApplies(hasLimit, limit, Len(lines))
                THEN Append(Slice0(lines, limit), MoreLines(Len(lines) - limit))
                ELSE lines
    IN  Substring0(Join(kept, "\n"), MAX_OUTPUT)

RunRead ==
    /\ UNCHANGED <<loopVars, bashVars, truncVars>>
    /\ fcalls < MaxFileCalls
    /\ \E p \in PathInputs, hasLimit \in BOOLEAN, limit \in Limits :
        LET fp == PathResolve(WORKDIR, p)
            result ==
                IF ~SafePathOk(p) THEN ErrorResult("Path escapes workspace: p")
                ELSE IF ReadFails(fp) THEN ErrorResult("ENOENT")
                ELSE ContentResult(ReadText(files[fp], hasLimit, limit))
        IN  /\ ~hasLimit => limit = 0
            /\ fop' = FileOp("read_file", p, <<>>, <<>>, <<>>, hasLimit, limit,
                             result)
    /\ fcalls' = fcalls + 1
    /\ UNCHANGED <<files, dirs>>

-----------------------------------------------------------------------------
(* runWrite *)

\* Bytes of one character in UTF-8.
Utf8Bytes(c) == IF c = "U+00E9" THEN 2 ELSE 1

\* A length that would count UTF-16 code units (content.length).
ByteLengthAsLength(t) == Len(t)

\* Buffer.byteLength(content, "utf8")
RECURSIVE ByteLength(_)
ByteLength(t) == IF t = <<>> THEN 0 ELSE Utf8Bytes(Head(t)) + ByteLength(Tail(t))

RunWrite ==
    /\ UNCHANGED <<loopVars, bashVars, truncVars>>
    /\ fcalls < MaxFileCalls
    /\ \E p \in PathInputs, content \in WriteContents :
        LET fp == PathResolve(WORKDIR, p)
            d == PathDirname(fp)
            made == dirs \cup AncestorsAndSelf(d)
        IN  IF ~SafePathOk(p)
            THEN /\ fop' = FileOp("write_file", p, content, <<>>, <<>>, FALSE, 0,
                                  ErrorResult("Path escapes workspace: p"))
                 /\ UNCHANGED <<files, dirs>>
            ELSE IF MkdirFails(d)
            THEN /\ fop' = FileOp("write_file", p, content, <<>>, <<>>, FALSE, 0,
                                  ErrorResult("ENOTDIR"))
                 /\ UNCHANGED <<files, dirs>>
            ELSE IF WriteFails(fp, made)
            THEN /\ fop' = FileOp("write_file", p, content, <<>>, <<>>, FALSE, 0,
                                  ErrorResult("EISDIR"))
                 /\ dirs' = made
                 /\ UNCHANGED files
            ELSE /\ fop' = FileOp("write_file", p, content, <<>>, <<>>, FALSE, 0,
                                  WroteResult(ByteLength(content)))
                 /\ dirs' = made
                 /\ files' = WithFile(fp, content)
    /\ fcalls' = fcalls + 1

-----------------------------------------------------------------------------
(* runEdit *)

\* GetSubstitution of String.prototype.replace for a string pattern (no
\* captures): $$ is a dollar, $& the match, $` the text before the match,
\* $' the text after it; any other character stands for itself.
RECURSIVE GetSubstitution(_, _, _, _)
GetSubstitution(repl, matched, before, after) ==
    IF repl = <<>> THEN <<>>
    ELSE IF Len(repl) >= 2 /\ repl[1] = "$" /\ repl[2] \in {"$", "&", "`", "'"}
    THEN (CASE repl[2] = "$" -> <<"$">>
            [] repl[2] = "&" -> matched
            [] repl[2] = "`" -> before
            [] repl[2] = "'" -> after)
         \o GetSubstitution(SubSeq(repl, 3, Len(repl)), matched, before, after)
    ELSE <<repl[1]>> \o GetSubstitution(Tail(repl), matched, before, after)

\* content.replace(oldText, newText), oldText occurring in content.
Replace(content, oldText, newText) ==
    LET i == IndexOf(content, oldText)
        before == SubSeq(content, 1, i)
        after == SubSeq(content, i + Len(oldText) + 1, Len(content))
    IN  before \o GetSubstitution(newText, oldText, before, after) \o after

RunEdit ==
    /\ UNCHANGED <<loopVars, bashVars, truncVars>>
    /\ fcalls < MaxFileCalls
    /\ \E p \in PathInputs, old \in OldTexts, new \in NewTexts :
        LET fp == PathResolve(WORKDIR, p) IN
            IF ~SafePathOk(p)
            THEN /\ fop' = FileOp("edit_file", p, <<>>, old, new, FALSE, 0,
                                  ErrorResult("Path escapes workspace: p"))
                 /\ UNCHANGED files
            ELSE IF ReadFails(fp)
            THEN /\ fop' = FileOp("edit_file", p, <<>>, old, new, FALSE, 0,
                                  ErrorResult("ENOENT"))
                 /\ UNCHANGED files
            ELSE IF ~Includes(files[fp], old)
            THEN /\ fop' = FileOp("edit_file", p, <<>>, old, new, FALSE, 0,
                                  ErrorResult("Text not found in p"))
                 /\ UNCHANGED files
            ELSE /\ fop' = FileOp("edit_file", p, <<>>, old, new, FALSE, 0,
                                  EditedResult)
                 /\ files' = WithFile(fp, Replace(files[fp], old, new))
    /\ fcalls' = fcalls + 1
    /\ UNCHANGED dirs

FilesIdle ==
    /\ files = <<>>
    /\ dirs = {}
    /\ fop = FileOp("none", <<>>, <<>>, <<>>, <<>>, FALSE, 0, NoFileResult)
    /\ fcalls = 0

-----------------------------------------------------------------------------
(* agentLoop *)

\* The texts of `parts` with the text `sep` between them.
RECURSIVE JoinText(_, _)
JoinText(parts, sep) ==
    IF Len(parts) = 1 THEN parts[1]
    ELSE parts[1] \o sep \o JoinText(Tail(parts), sep)

\* String.prototype.replace(/\n/g, "\\n"): every newline becomes a backslash
\* and an n.
EscapeNewlines(t) == JoinText(Split(t, "\n"), <<"\\", "n">>)

\* The trace line of a dispatched call.  s02: `> name: ` and the head of the
\* output with its newlines escaped; s01: the head of the output.
TraceLine(v, name, output) ==
    IF v = "s02"
    THEN <<">", " ">> \o NameText(name) \o <<":", " ">>
         \o EscapeNewlines(Substring0(output, TRACE_CUT))
    ELSE Substring0(output, TRACE_CUT)

\* A dispatch that would record what the trace line shows of the output.
PayloadAsTraced(output) == EscapeNewlines(Substring0(output, TRACE_CUT))

\* content: output
Payload(output) == output

\* A loop that would end on "no requests" instead of on the finish signal.
ShouldReturnNoRequests(v, m) == Len(m.tool_calls) = 0

\* The test that ends the loop after the assistant turn was appended.
ShouldReturn(v, m) ==
    IF v = "s01_anthropic"
    THEN m.signal # "tool_use"
    ELSE m.signal # "tool_calls" \/ ~m.has_tool_calls

\* A round end that would put the results message in the place of the
\* assistant turn it answers.
RoundEndReplacing(h, res) ==
    IF variant = "s01_anthropic"
    THEN Append(SubSeq(h, 1, Len(h) - 1), ResultsTurn(res))
    ELSE h

\* The conversation once the for loop over the tool calls has ended: the
\* Anthropic loop pushes the collected results as one user message.
RoundEnd(h, res) ==
    IF variant = "s01_anthropic" THEN Append(h, ResultsTurn(res)) ELSE h

\* A dispatch that would start the executors of all the requests left at
\* once (Promise.all over the tool calls).
StartedTogether(cs, k) == {cs[j].id : j \in k..Len(cs)}

\* The executors the for loop starts when it reaches the k-th request: one,
\* which it awaits before it goes on.
Started(cs, k) == {cs[k].id}

\* What is awaited once the step has moved to position p: moving to "model"
\* issues the model call.
Awaiting(fl, p) == IF p = "model" THEN fl \cup {"model"} ELSE fl

\* An error leaves agentLoop.  s01: main's catch block prints it and the
\* session prompts again.  s02: main has no catch block, main() rejects and
\* main().catch(console.error) prints it once the session is over.
ThrowOut(kind) ==
    /\ loopExit' = kind
    /\ reported' = reported + 1
    /\ pc' = IF variant = "s02" THEN "dead" ELSE "prompt"
    /\ idx' = 0
    /\ calls' = NoCalls
    /\ results' = <<>>

\* The for loop moves on from the k-th tool call, the conversation being h
\* and the collected results res.
Advance(h, res, k) ==
    IF k < Len(calls)
    THEN /\ history' = h
         /\ results' = res
         /\ idx' = k + 1
         /\ pc' = "dispatch"
         /\ UNCHANGED calls
    ELSE /\ history' = RoundEnd(h, res)
         /\ results' = <<>>
         /\ idx' = 0
         /\ pc' = "model"
         /\ calls' = NoCalls

\* A driver that would hand agentLoop a conversation of the new query alone.
WithQueryAlone(h) == <<UserTurn>>

\* main: history.push of the user turn; agentLoop gets the same array.
WithQuery(h) == Append(h, UserTurn)

\* main: a line that is no exit token is pushed as a user turn and
\* agentLoop is called, which issues its first model call.
ReadQuery ==
    /\ UNCHANGED <<bashVars, fileVars, truncVars>>
    /\ pc = "prompt"
    /\ queries < MaxQueries
    /\ history' = WithQuery(history)
    /\ queries' = queries + 1
    /\ pc' = "model"
    /\ inflight' = Awaiting(inflight, pc')
    /\ loopExit' = "running"
    /\ UNCHANGED <<variant, idx, results, reported, nextId, modelCalls,
                   toolCalls, calls, console>>

\* main: an empty line, "q" or "exit" ends the session.
ReadExit ==
    /\ UNCHANGED <<bashVars, fileVars, truncVars>>
    /\ pc = "prompt"
    /\ pc' = "closed"
    /\ UNCHANGED <<variant, history, idx, results, loopExit, reported,
                   nextId, queries, modelCalls, toolCalls, calls, console,
                   inflight>>

\* The tool calls a reply may carry: n requests with fresh identifiers,
\* any names, any argument payloads.
Replies(v, n) ==
    {[k \in 1..n |-> ToolCall(nextId + k - 1, names[k], args[k])] :
        names \in [1..n -> ToolNames], args \in [1..n -> ArgShapes(v)]}

\* agentLoop: the model call completes; the assistant turn is pushed, then
\* the loop returns or starts on the tool calls.
ModelReply ==
    /\ UNCHANGED <<bashVars, fileVars, truncVars>>
    /\ pc = "model"
    /\ modelCalls < MaxModelCalls
    /\ \E sig \in Signals(variant), has \in BOOLEAN,
          n \in 0..(MaxToolCalls - toolCalls) :
        \E cs \in Replies(variant, n) :
          LET m == AssistantTurn(sig, has, cs)
              h == Append(history, m)
          IN  \* an Anthropic reply always has a content array; an OpenAI
              \* message without the tool_calls field carries no request
              /\ variant = "s01_anthropic" => has
              /\ ~has => n = 0
              /\ modelCalls' = modelCalls + 1
              /\ toolCalls' = toolCalls + n
              /\ nextId' = nextId + n
              /\ IF ShouldReturn(variant, m)
                 THEN /\ history' = h
                      /\ pc' = "prompt"
                      /\ loopExit' = "returned"
                      /\ idx' = 0
                      /\ calls' = NoCalls
                      /\ results' = <<>>
                 ELSE IF n = 0
                 THEN /\ history' = RoundEnd(h, <<>>)
                      /\ pc' = "model"
                      /\ idx' = 0
                      /\ calls' = NoCalls
                      /\ results' = <<>>
                      /\ UNCHANGED loopExit
                 ELSE /\ history' = h
                      /\ pc' = "dispatch"
                      /\ idx' = 1
                      /\ calls' = cs
                      /\ results' = <<>>
                      /\ UNCHANGED loopExit
    /\ inflight' = Awaiting(inflight \ {"model"}, pc')
    /\ UNCHANGED <<variant, reported, queries, console>>

\* agentLoop: the model call throws (network failure, rejected request).
ModelCallFails ==
    /\ UNCHANGED <<bashVars, fileVars, truncVars>>
    /\ pc = "model"
    /\ modelCalls < MaxModelCalls
    /\ modelCalls' = modelCalls + 1
    /\ ThrowOut("threw_model")
    /\ inflight' = inflight \ {"model"}
    /\ UNCHANGED <<variant, history, nextId, queries, toolCalls, console>>

\* The text the executor of request c returns.  s02: the handler found for
\* its name; s01: runBash on the coerced command.
ExecutorOutput(v, c) ==
    IF v = "s02" THEN HandlerOutput(c.name, c.args)
    ELSE RunBashText(CoerceCommand(c.args))

\* The trace line is printed and the result recorded: as a tool message
\* (OpenAI) or as a block of the round's results (Anthropic); the for loop
\* moves on.
Record(c, output) ==
    /\ console' = TraceLine(variant, c.name, output)
    /\ IF variant = "s01_anthropic"
       THEN Advance(history,
                    Append(results, ToolResultBlock(c.id, Payload(output))),
                    idx)
       ELSE Advance(Append(history, ToolTurn(c.id, Payload(output))),
                    results, idx)

\* The for loop calls the executor of request c and awaits it.
Await(c) ==
    /\ pc' = "exec"
    /\ inflight' = inflight \cup Started(calls, idx)
    /\ UNCHANGED <<history, results, idx, calls, console, loopExit, reported>>

\* s02: one pass of the for loop up to its await: parse, look up, call the
\* handler; for a name without handler the unknown-tool text is recorded
\* at once.
DispatchS02 ==
    /\ UNCHANGED <<bashVars, fileVars, truncVars>>
    /\ pc = "dispatch"
    /\ variant = "s02"
    /\ LET c == calls[idx] IN
       IF JsonParseThrows(c.args)
       THEN /\ ThrowOut("threw_dispatch")
            /\ UNCHANGED <<history, console, inflight>>
       ELSE IF HandlerLookup(c.name) = "none"
       THEN /\ Record(c, UnknownToolText(c.name))
            /\ inflight' = Awaiting(inflight, pc')
            /\ UNCHANGED <<loopExit, reported>>
       ELSE Await(c)
    /\ UNCHANGED <<variant, nextId, queries, modelCalls, toolCalls>>

\* s01 OpenAI: one pass of the for loop up to its await: only a call named
\* bash is run and answered.
DispatchOpenAI ==
    /\ UNCHANGED <<bashVars, fileVars, truncVars>>
    /\ pc = "dispatch"
    /\ variant = "s01_openai"
    /\ LET c == calls[idx] IN
       IF c.name = "bash"
       THEN Await(c)
       ELSE /\ Advance(history, results, idx)
            /\ inflight' = Awaiting(inflight, pc')
            /\ UNCHANGED <<console, loopExit, reported>>
    /\ UNCHANGED <<variant, nextId, queries, modelCalls, toolCalls>>

\* s01 Anthropic: one pass of the for loop up to its await: every tool_use
\* block is run as a shell command.
DispatchAnthropic ==
    /\ UNCHANGED <<bashVars, fileVars, truncVars>>
    /\ pc = "dispatch"
    /\ variant = "s01_anthropic"
    /\ Await(calls[idx])
    /\ UNCHANGED <<variant, nextId, queries, modelCalls, toolCalls>>

\* The awaited executor completes: it throws (s02) or its output is traced
\* and recorded, and the for loop moves on.
ExecutorReturns ==
    /\ UNCHANGED <<bashVars, fileVars, truncVars>>
    /\ pc = "exec"
    /\ LET c == calls[idx] IN
       IF variant = "s02" /\ HandlerThrows(c.name, c.args)
       THEN /\ ThrowOut("threw_dispatch")
            /\ inflight' = inflight \ {c.id}
            /\ UNCHANGED <<history, console>>
       ELSE /\ Record(c, ExecutorOutput(variant, c))
            /\ inflight' = Awaiting(inflight \ {c.id}, pc')
            /\ UNCHANGED <<loopExit, reported>>
    /\ UNCHANGED <<variant, nextId, queries, modelCalls, toolCalls>>

\* The output bound is applied to nothing.
TruncIdle ==
    /\ tin = <<>>
    /\ tout = <<>>
    /\ tn = 0

\* No session runs.
LoopIdle ==
    /\ variant = "s02"
    /\ history = <<>>
    /\ pc = "closed"
    /\ idx = 0
    /\ results = <<>>
    /\ loopExit = "none"
    /\ reported = 0
    /\ nextId = 1
    /\ queries = 0
    /\ modelCalls = 0
    /\ toolCalls = 0
    /\ calls = NoCalls
    /\ console = <<>>
    /\ inflight = {}

\* main: the empty history (s01 OpenAI starts with the system message).
InitialHistory(v) == IF v = "s01_openai" THEN <<SystemTurn>> ELSE <<>>

Init ==
    /\ variant \in Variants
    /\ history = InitialHistory(variant)
    /\ pc = "prompt"
    /\ idx = 0
    /\ results = <<>>
    /\ loopExit = "none"
    /\ reported = 0
    /\ nextId = 1
    /\ queries = 0
    /\ modelCalls = 0
    /\ toolCalls = 0
    /\ calls = NoCalls
    /\ console = <<>>
    /\ inflight = {}
    /\ bvariant = "s02"
    /\ BashIdle
    /\ FilesIdle
    /\ TruncIdle

Next ==
    \/ ReadQuery
    \/ ReadExit
    \/ ModelReply
    \/ ModelCallFails
    \/ DispatchS02
    \/ DispatchOpenAI
    \/ DispatchAnthropic
    \/ ExecutorReturns

\* The session: user queries, model calls and dispatch rounds.
Spec == Init /\ [][Next]_vars

\* run-command alone: calls of runBash, one after another.
BashInit ==
    /\ LoopIdle
    /\ FilesIdle
    /\ bvariant \in BashVariants
    /\ BashIdle
    /\ TruncIdle

BashNext ==
    \/ BashCall
    \/ ProcExits
    \/ TimerFires
    \/ SpawnFails

SpecBash == BashInit /\ [][BashNext]_vars

\* The file tools alone, on a small file system: the working directory
\* /w/a with a file f, a sibling directory /w/ab with a file f, and /etc/x.
FilesInit ==
    /\ LoopIdle
    /\ bvariant = "s02"
    /\ BashIdle
    /\ dirs = {<<"/">>, <<"/", "w">>, <<"/", "w", "/", "a">>, <<"/", "w", "/", "a", "b">>, <<"/", "e", "t", "c">>}
    /\ \E t \in InitTexts :
          files = [q \in {<<"/", "w", "/", "a", "/", "f">>,
                      <<"/", "w", "/", "a", "b", "/", "f">>,
                      <<"/", "e", "t", "c", "/", "x">>} |->
                      IF q = <<"/", "w", "/", "a", "/", "f">> THEN t ELSE <<"a">>]
    /\ fop = FileOp("none", <<>>, <<>>, <<>>, <<>>, FALSE, 0, NoFileResult)
    /\ fcalls = 0
    /\ TruncIdle

FilesNext ==
    \/ RunRead
    \/ RunWrite
    \/ RunEdit

SpecFiles == FilesInit /\ [][FilesNext]_vars

\* Texts the output bound is applied to: every text of at most ShortLen
\* characters, and texts around and beyond the bound.
ShortTexts ==
    UNION {[1..n -> {"x", "\n"}] : n \in 0..ShortLen}

LongLengths == {MAX_OUTPUT - 1, MAX_OUTPUT, MAX_OUTPUT + 1}

LongTexts ==
    {[i \in 1..n |-> IF i = 1 THEN c ELSE "x"] :
        n \in LongLengths, c \in {"x", "\n"}}

\* runBash, runRead: .substring(0, 50000) on the text about to be returned.
ApplyBound ==
    /\ UNCHANGED <<loopVars, bashVars, fileVars>>
    /\ tn < MaxApplications
    /\ tout' = Substring0(tout, MAX_OUTPUT)
    /\ tn' = tn + 1
    /\ UNCHANGED tin

TruncInit ==
    /\ LoopIdle
    /\ bvariant = "s02"
    /\ BashIdle
    /\ FilesIdle
    /\ tin \in ShortTexts \cup LongTexts
    /\ tout = tin
    /\ tn = 0

TruncNext == ApplyBound

\* The output bound alone, applied once and again to a text.
SpecTruncate == TruncInit /\ [][TruncNext]_vars

-----------------------------------------------------------------------------
(* Reading the conversation: which requests are answered *)

Max(S) == CHOOSE x \in S : \A y \in S : y <= x

\* Index of the latest assistant turn, of the latest user query (0: none).
LastAssistantIdx(h) ==
    Max({0} \cup {i \in 1..Len(h) : h[i].role = "assistant"})

LastQueryIdx(h) ==
    Max({0} \cup {i \in 1..Len(h) : h[i].role = "user" /\ h[i].content = "query"})

\* The identifiers an assistant turn asks results for, in order.
RequestIds(m) == [k \in 1..Len(m.tool_calls) |-> m.tool_calls[k].id]

\* The number of tool messages that directly follow turn i.
ToolRun(h, i) ==
    Max({j \in 0..(Len(h) - i) : \A k \in 1..j : h[i + k].role = "tool"})

\* The identifiers of the results that follow turn i, in order: the run of
\* tool messages (OpenAI), the blocks of the results message (Anthropic).
AnswerIds(h, i) ==
    IF i < Len(h) /\ h[i + 1].role = "user" /\ h[i + 1].content = "tool_results"
    THEN [k \in 1..Len(h[i + 1].results) |-> h[i + 1].results[k].tool_use_id]
    ELSE [k \in 1..ToolRun(h, i) |-> h[i + k].tool_call_id]

Answered(h, i) == AnswerIds(h, i) = RequestIds(h[i])

\* Every result recorded so far, in the conversation or in `results`.
AllResults(h, res) ==
    {[id |-> h[i].tool_call_id, content |-> h[i].content] :
        i \in {j \in 1..Len(h) : h[j].role = "tool"}}
    \cup UNION {{[id |-> b.tool_use_id, content |-> b.content] :
                    b \in Range(h[i].results)} : i \in 1..Len(h)}
    \cup {[id |-> b.tool_use_id, content |-> b.content] : b \in Range(res)}

\* The loop is inside a call of agentLoop that has appended a turn.
InRun == loopExit = "running" /\ LastAssistantIdx(history) > LastQueryIdx(history)

-----------------------------------------------------------------------------
(* Claims about the agent loop *)

\* C1 (dispatch pairing per round): when agentLoop issues its next model
\* call, the assistant turn of the round just dispatched, if it carries
\* N >= 1 requests, is followed by exactly N results carrying the requests'
\* identifiers in the order of the requests.
C1_DispatchPairing ==
    (pc = "model" /\ InRun)
        => Answered(history, LastAssistantIdx(history))

AsksForTools(v, m) ==
    /\ m.signal = ToolSignal(v)
    /\ v # "s01_anthropic" => m.has_tool_calls

C3_SessionPairing ==
    pc = "model" =>
        \A i \in 1..Len(history) :
            history[i].role = "assistant" => Answered(history, i)

\* C4 (malformed invocations never abort the loop): dispatching a request
\* whose arguments are unparseable or lack a field raises nothing, records
\* one result for that request and leaves the loop running.
C4_MalformedNeverAborts ==
    [][(pc \in {"dispatch", "exec"} /\ calls[idx].args # "ok") =>
          /\ loopExit' = "running"
          /\ \/ pc = "dispatch" /\ pc' = "exec"
             \/ /\ pc' \in {"dispatch", "model"}
                /\ \E r \in AllResults(history', results')
                              \ AllResults(history, results) :
                      r.id = calls[idx].id]_vars

\* C5 (unknown tool): dispatching a request whose name is not registered
\* raises nothing and records exactly one result, with the request's
\* identifier and the payload "Unknown tool: <name>".
C5_UnknownTool ==
    [][(pc \in {"dispatch", "exec"} /\ calls[idx].name \notin Registered(variant)) =>
          /\ loopExit' = "running"
          /\ \/ pc = "dispatch" /\ pc' = "exec"
             \/ /\ pc' \in {"dispatch", "model"}
                /\ AllResults(history', results') \ AllResults(history, results)
                      = {[id |-> calls[idx].id,
                          content |-> UnknownToolText(calls[idx].name)]}]_vars

\* C10 (loop-fatal failure): when the model call throws, the driver reports
\* the error, the session is back at its prompt and the conversation is as
\* it was.
C10_SessionSurvivesModelFailure ==
    [][(pc = "model" /\ loopExit' = "threw_model") =>
          /\ pc' = "prompt"
          /\ reported' = reported + 1
          /\ history' = history]_vars

\* C11 (append-only conversation): every step of a session leaves the
\* turns already in the conversation as they are and where they are: the
\* conversation before the step is a prefix of the conversation after it.
C11_AppendOnly ==
    [][/\ Len(history) <= Len(history')
       /\ SubSeq(history', 1, Len(history)) = history]_vars

\* C11 witness: a results message has been appended behind an assistant
\* turn, and a later model call has failed without touching either.
C11_Witness ==
    /\ loopExit = "threw_model"
    /\ Len(history) >= 3
    /\ history[Len(history) - 1].role = "assistant"
    /\ Last(history).role \in {"tool", "user"}

\* Whether dispatching request c runs an executor.
RunsExecutor(v, c) ==
    CASE v = "s02" -> HandlerLookup(c.name) # "none"
      [] v = "s01_openai" -> c.name = "bash"
      [] OTHER -> TRUE

\* The identifiers under which a result is recorded.
ResultIds(h, res) == {r.id : r \in AllResults(h, res)}

\* C17 (single thread of control): at most one model call or executor call
\* is awaited at any time; no model call is outstanding while an executor
\* runs; the executor of a request runs only once the result of every
\* executor before it in the round is recorded, and before any later
\* request has a result; a model call is outstanding only between rounds.
C17_SingleThread ==
    /\ Cardinality(inflight) <= 1
    /\ pc = "model" => inflight = {"model"} /\ calls = NoCalls
    /\ pc = "exec" => inflight = {calls[idx].id}
    /\ pc \notin {"model", "exec"} => inflight = {}
    /\ pc \in {"dispatch", "exec"} =>
          /\ idx \in 1..Len(calls)
          /\ calls = history[LastAssistantIdx(history)].tool_calls
          /\ \A j \in 1..(idx - 1) :
                RunsExecutor(variant, calls[j])
                    => calls[j].id \in ResultIds(history, results)
          /\ \A j \in idx..Len(calls) :
                calls[j].id \notin ResultIds(history, results)

\* C17 witness: the executor of the second request of a round is awaited,
\* the result of the first recorded.
C17_Witness ==
    /\ pc = "exec"
    /\ idx = 2
    /\ inflight = {calls[2].id}
    /\ calls[1].id \in ResultIds(history, results)

\* C20 (registry consistency): the names advertised in TOOLS are exactly
\* the names registered with the dispatch (the keys of TOOL_HANDLERS, the
\* name the s01 loop tests for), the variant's registry
\* stays as it is, and a request for an advertised tool never ends the loop,
\* is never answered with the unknown-tool text and gets a result.
C20_RegistryConsistency ==
    [][/\ TOOLS(variant) = Registered(variant)
       /\ variant' = variant
       /\ (pc \in {"dispatch", "exec"} /\ calls[idx].name \in TOOLS(variant)) =>
            /\ loopExit' = "running"
            /\ \/ pc = "dispatch" /\ pc' = "exec"
               \/ \E r \in AllResults(history', results')
                            \ AllResults(history, results) :
                      /\ r.id = calls[idx].id
                      /\ r.content # UnknownToolText(calls[idx].name)]_vars

\* C18 (verbatim payload): a dispatch step that records a result records
\* the full text the executor returned (or the unknown-tool text) under the
\* request's identifier, prints the trace line cut to 200 characters, and
\* leaves every earlier turn and result as it was.
C18_VerbatimPayload ==
    [][(pc \in {"dispatch", "exec"}
        /\ AllResults(history', results') # AllResults(history, results)) =>
          /\ AllResults(history', results') \ AllResults(history, results)
                = {[id |-> calls[idx].id,
                    content |-> ExecutorOutput(variant, calls[idx])]}
          /\ AllResults(history, results) \subseteq AllResults(history', results')
          /\ SubSeq(history', 1, Len(history)) = history
          /\ LET output == ExecutorOutput(variant, calls[idx])
                 shown == SubSeq(output, 1, Min(Len(output), TRACE_CUT))
             IN  Len(console') <= Len(NameText(calls[idx].name)) + 4
                                  + Len(shown)
                                  + Cardinality({i \in 1..Len(shown) :
                                                    shown[i] = "\n"})]_vars

\* C18 witness: the last result recorded is longer than the trace line
\* shows and has a newline, which the trace line shows escaped.
C18_Witness ==
    /\ pc \in {"dispatch", "exec", "model"}
    /\ Last(history).role = "tool"
    /\ Len(Last(history).content) > TRACE_CUT
    /\ \E i \in 1..Len(Last(history).content) : Last(history).content[i] = "\n"
    /\ \A i \in 1..Len(console) : console[i] # "\n"
    /\ \E i \in 1..Len(console) : console[i] = "\\"
    /\ Last(console) = Last(history).content[TRACE_CUT]

\* C19 (conversation continuity): a step that accepts a user query appends
\* exactly one user turn behind every turn of the earlier queries and
\* leaves agentLoop at its first model call, whose input is that
\* conversation.
C19_Continuity ==
    [][queries' = queries + 1 =>
          /\ Len(history') = Len(history) + 1
          /\ SubSeq(history', 1, Len(history)) = history
          /\ Last(history') = UserTurn
          /\ pc' = "model"
          /\ loopExit' = "running"]_vars

\* C19 witness: the second query of a session is at its first model call,
\* the turns of the first query, a dispatch round among them, before it.
C19_Witness ==
    /\ queries = 2
    /\ pc = "model"
    /\ Last(history) = UserTurn
    /\ LastAssistantIdx(history) > 0
    /\ \E i \in 1..Len(history) : Len(history[i].tool_calls) > 0

\* C16 (loop termination): with every model call and executor call
\* completing, a dispatch round always leads on to the next model call, the
\* loop returns at the first assistant turn that carries no requests and
\* not before, and no model call is issued once it has returned.
C16_ReturnsAtFirstQuietTurn ==
    [][/\ (pc \in {"dispatch", "exec"} /\ loopExit = "running") =>
            /\ loopExit' = "running"
            /\ pc' \in {"dispatch", "exec", "model"}
       /\ (pc = "model" /\ Len(history') > Len(history)
            /\ Len(history'[Len(history) + 1].tool_calls) = 0) =>
            /\ loopExit' = "returned"
            /\ pc' = "prompt"
       /\ (loopExit = "running" /\ loopExit' = "returned") =>
            Len(Last(history').tool_calls) = 0
       /\ modelCalls' > modelCalls =>
            /\ pc = "model"
            /\ loopExit = "running"]_vars

-----------------------------------------------------------------------------
(* Claims about the executors *)

\* The resolved path of p is neither the working directory nor below it.
OutsideWorkdir(p) ==
    LET r == Segments(PathResolve(WORKDIR, p))
        w == Segments(WORKDIR)
    IN  ~(Len(w) <= Len(r) /\ SubSeq(r, 1, Len(w)) = w)

\* C6 (path confinement): a call of read_file, write_file or edit_file with
\* a path that resolves outside the working directory returns an error text
\* and changes no file and no directory.
C6_PathConfinement ==
    [][(fcalls' = fcalls + 1 /\ OutsideWorkdir(fop'.path)) =>
          /\ fop'.result.kind = "Error: "
          /\ files' = files
          /\ dirs' = dirs]_vars

\* Some denylisted substring occurs in the command, at any position.
ContainsDenylisted(command) ==
    \E d \in {D_RM, D_SUDO, D_SHUTDOWN, D_REBOOT, D_DEV} :
        \E i \in 1..Len(command) :
            i + Len(d) - 1 <= Len(command)
            /\ \A k \in 1..Len(d) : command[i + k - 1] = d[k]

\* C7 (denylist coverage): a command containing a denylisted substring at
\* any position returns exactly "Error: Dangerous command blocked" and
\* spawns nothing; for a command containing none a subprocess is spawned.
C7_DenylistCoverage ==
    bcalls > 0 =>
        IF ContainsDenylisted(bcmd)
        THEN bresult = Blocked /\ ~bspawned /\ bpc = "idle" /\ procs = 0
        ELSE bspawned /\ bresult # Blocked

\* C7 witness: a command with a denylisted substring after its first
\* character has been refused.
C7_Witness ==
    /\ bcalls > 0
    /\ ContainsDenylisted(bcmd)
    /\ ~ContainsDenylisted(SubSeq(bcmd, 1, Len(bcmd) - 1))
    /\ ContainsDenylisted(Tail(bcmd))
    /\ bresult = Blocked
    /\ ~bspawned

\* C8 (patch precondition and effect): edit_file on a file holding c
\* returns "Error: Text not found in <path>" and leaves the file as it is
\* when old_text does not occur in c, and otherwise writes back c with the
\* first occurrence of old_text replaced by new_text, character for
\* character.
C8_PatchEffect ==
    [][(/\ fcalls' = fcalls + 1
        /\ fop'.tool = "edit_file"
        /\ ~OutsideWorkdir(fop'.path)
        /\ PathResolve(WORKDIR, fop'.path) \in DOMAIN files) =>
          LET fp == PathResolve(WORKDIR, fop'.path)
              c == files[fp]
              old == fop'.old_text
              new == fop'.new_text
          IN  IF \A i \in 0..(Len(c) - Len(old)) : SubSeq(c, i + 1, i + Len(old)) # old
              THEN /\ fop'.result = ErrorResult("Text not found in p")
                   /\ files' = files
              ELSE \E i \in 0..(Len(c) - Len(old)) :
                      /\ SubSeq(c, i + 1, i + Len(old)) = old
                      /\ \A j \in 0..(i - 1) : SubSeq(c, j + 1, j + Len(old)) # old
                      /\ files'[fp] = SubSeq(c, 1, i) \o new
                                        \o SubSeq(c, i + Len(old) + 1, Len(c))
                      /\ \A q \in DOMAIN files \ {fp} : files'[q] = files[q]]_vars

\* C9 (read_file line limit): read_file on a file of n lines with a limit,
\* 0 <= limit < n, returns the first `limit` lines and one marker line for
\* the n - limit lines left out (the marker alone when limit = 0); with
\* limit >= n or no limit it returns the whole text.
C9_ReadLimit ==
    [][(/\ fcalls' = fcalls + 1
        /\ fop'.tool = "read_file"
        /\ ~OutsideWorkdir(fop'.path)
        /\ PathResolve(WORKDIR, fop'.path) \in DOMAIN files) =>
          LET text == files[PathResolve(WORKDIR, fop'.path)]
              lines == Split(text, "\n")
              n == Len(lines)
              limit == fop'.limit
          IN  /\ (fop'.has_limit /\ 0 <= limit /\ limit < n) =>
                    fop'.result = ContentResult(
                        Join(SubSeq(lines, 1, limit)
                             \o <<MoreLines(n - limit)>>, "\n"))
              /\ (~fop'.has_limit \/ limit >= n) =>
                    fop'.result = ContentResult(text)]_vars

\* C14 (write-file postcondition): a successful write_file of `content` to
\* a path inside the working directory leaves every parent directory of
\* the file in place, the file holding exactly `content`, every other file
\* and directory as it was, and returns the confirmation with the number
\* of bytes of `content` in UTF-8.
C14_WritePostcondition ==
    [][(/\ fcalls' = fcalls + 1
        /\ fop'.tool = "write_file"
        /\ ~OutsideWorkdir(fop'.path)
        /\ fop'.result.kind # "Error: ") =>
          LET fp == PathResolve(WORKDIR, fop'.path)
              segs == Segments(fp)
              content == fop'.content
          IN  /\ \A k \in 0..(Len(segs) - 1) :
                    RenderPath(SubSeq(segs, 1, k)) \in dirs'
              /\ dirs \subseteq dirs'
              /\ \A dd \in dirs' \ dirs :
                    \E k \in 0..(Len(segs) - 1) :
                        dd = RenderPath(SubSeq(segs, 1, k))
              /\ DOMAIN files' = DOMAIN files \cup {fp}
              /\ files'[fp] = content
              /\ \A q \in DOMAIN files \ {fp} : files'[q] = files[q]
              /\ fop'.result = WroteResult(
                    Len(content)
                    + Cardinality({i \in 1..Len(content) :
                                      content[i] = "U+00E9"}))]_vars

\* C14 witness: write_file has created a missing directory and a file in
\* it, the content holding a character of two bytes.
C14_Witness ==
    /\ fop.tool = "write_file"
    /\ fop.result = WroteResult(3)
    /\ Len(fop.content) = 2
    /\ <<"/", "w", "/", "a", "/", "d">> \in dirs
    /\ <<"/", "w", "/", "a", "/", "d", "/", "g">> \in DOMAIN files
    /\ files[<<"/", "w", "/", "a", "/", "d", "/", "g">>] = fop.content

\* The text runBash is to return for a subprocess that has run to its end.
Normalised(stdout, stderr) ==
    LET out == Trim(stdout \o stderr)
    IN  IF out = <<>> THEN NoOutput
        ELSE Output(SubSeq(out, 1, Min(Len(out), MAX_OUTPUT)))

\* C12 (run-command output normalisation): a call whose subprocess runs to
\* its end before the timer fires, whatever its exit status, returns stdout
\* followed by stderr, trimmed and cut to 50,000 characters, and exactly
\* "(no output)" when the trimmed text is empty.
C12_OutputNormalisation ==
    [][(bpc = "running" /\ ~bkilled /\ bexit'.how = "exit") =>
          bresult' = Normalised(bexit'.stdout, bexit'.stderr)]_vars

\* C13 (run-command timeout): when the timer fires while the subprocess
\* runs, the subprocess is ended, the call returns exactly
\* "Error: Timeout (120s)" and no subprocess is left running; a call whose
\* subprocess ends by itself before the timer fires never returns that
\* text, and no timer is left to fire.
C13_Timeout ==
    [][/\ (bpc = "running" /\ ~bkilled /\ bkilled') =>
            /\ bresult' = Timeout
            /\ bpc' = "idle"
            /\ procs' = 0
       /\ (bpc = "running" /\ ~bkilled /\ ~bkilled' /\ bpc' = "idle") =>
            bresult' # Timeout
       /\ (bpc = "idle" /\ bcalls' = bcalls) =>
            /\ bkilled' = bkilled
            /\ procs' = procs]_vars

\* C15 (truncation idempotence): the bound applied to a text gives a text
\* of at most 50,000 characters, and applied to an already bounded text
\* gives that text.
C15_TruncationIdempotent ==
    [][tn' = tn + 1 =>
          /\ Len(tout') <= MAX_OUTPUT
          /\ tn >= 1 => tout' = tout]_vars

\* C15 witness: a text longer than the bound has been cut to the bound,
\* and the bound has been applied to the cut text again.
C15_Witness ==
    /\ tn = 2
    /\ Len(tin) > MAX_OUTPUT
    /\ Len(tout) = MAX_OUTPUT
    /\ tout = SubSeq(tin, 1, MAX_OUTPUT)

=============================================================================
